---- MODULE Spec2Model ----
(***************************************************************************)
(* Load-test harness of police-thief: the virtual players, the batched     *)
(* ramp-up and the shutdown of LoadTestManager.run_test, the monitor task  *)
(* and the shared PerformanceMetrics, for the datagram tester              *)
(* (rudp_load_test.py, transport = "udp") and the stream tester            *)
(* (tcp_load_test.py, transport = "tcp").                                  *)
(*                                                                         *)
(* Spec follows a whole run of the tester.  ScoreSpec applies the final    *)
(* report and evaluate_performance to metrics drawn from a set of          *)
(* snapshots, and MotionSpec applies the motion of update_position to a    *)
(* player whose position and velocity are drawn from a set of values.      *)
(*                                                                         *)
(* All coroutines run on one asyncio event loop, so scheduling is          *)
(* cooperative: `cur` is the task whose step the loop is executing and     *)
(* `ready` is the loop's FIFO queue of scheduled steps.  A task gives up   *)
(* `cur` only at an await that suspends.  A pc value that names an await   *)
(* ("open_conn", "drain", "sleep", "wait_closed", "hdr", "body",           *)
(* "ramp_sleep", "run_sleep", "gather") means the task is suspended there  *)
(* until the awaited event, or a cancel() request, schedules its next      *)
(* step.  CancelledError is a BaseException (Python 3.8 and later): the    *)
(* `except Exception` handlers of the source do not catch it.              *)
(***************************************************************************)
EXTENDS Integers, Sequences, FiniteSets, TLC

\* ---- bounds of the model ------------------------------------------------
MaxRooms == 2
MaxPerRoom == 2
MaxPlayers == 2
MaxBatch == 2
MaxTicks == 2
MaxEvents == 1
MaxMoves == 2

\* ---- program constants --------------------------------------------------
HEADER_LEN == 4
MAX_FRAME == 1048576
\* lengths and speeds are counted in tenths of a world unit
WORLD_SIZE == 1000
MAX_SPEED == 10

VARIABLES
  transport,         \* "udp" (rudp_load_test.py) or "tcp" (tcp_load_test.py)
  NUM_ROOMS,         \* module constants of the source, fixed per run
  PLAYERS_PER_ROOM,
  batch_size,        \* run_test's local batch_size
  players,           \* LoadTestManager.players: sequence of [player_id, room_id]
  mgr_running,       \* LoadTestManager.is_running
  opc,               \* position of run_test (the main task)
  next_i,            \* run_test's batch loop index i
  staggers,          \* history: inter-batch pauses that have elapsed
  reported,          \* print_results ran (the final report and the score)
  report,            \* what print_results and evaluate_performance computed
  rescored,          \* what a further evaluate_performance call computed
  metrics,           \* the shared PerformanceMetrics
  is_running,        \* VirtualPlayer.is_running, per player_id
  connected,         \* VirtualPlayer.connected (tcp), per player_id
  res,               \* VirtualPlayer.socket / .writer: "none", "open", "closed"
  io,                \* how the socket operation the player's task awaits ended
  pc,                \* position of each player's run() task
  msg,               \* the message send_message is sending for the player
  exc,               \* a CancelledError is propagating through run()'s finally
  ccancel,           \* cancel() was requested on the player's task
  ticks,             \* update_position calls made by the player
  position,          \* VirtualPlayer.position of the player MotionSpec follows
  velocity,          \* VirtualPlayer.velocity of that player
  moved,             \* history: how often that player's motion was advanced
  last_move,         \* history: where the latest advance began, and its draw
  rpc,               \* position of each player's read_messages task (tcp)
  rcancel,           \* cancel() was requested on the read task
  rlen,              \* length field of the frame the reader is reading
  rwake,             \* what the reader's read returns: data, partial, eof, error
  mpc,               \* position of the monitor_stats task
  mcancel,           \* cancel() was requested on the monitor task
  shown,             \* history: phases in which print_live_stats rendered
  events,            \* what the environment has done to the run so far
  interrupted,       \* an external interrupt (SIGINT) was delivered
  ready,             \* the event loop's FIFO of scheduled task steps
  todo,              \* steps of `ready` that belong to the running iteration
  cur,               \* the task whose step is executing
  log,               \* history: messages each player handed to its transport
  hist               \* history: per-player facts used by the properties

vars == <<transport, NUM_ROOMS, PLAYERS_PER_ROOM, batch_size, players,
          mgr_running, opc, next_i, staggers, reported, report, rescored, metrics,
          is_running, connected,
          res, io, pc, msg, exc, ccancel, ticks, position, velocity, moved,
          last_move, rpc, rcancel, rlen, rwake,
          mpc, mcancel, shown, events, interrupted, ready, todo, cur,
          log, hist>>

\* ---- tasks --------------------------------------------------------------
Ids == 0 .. (MaxPlayers - 1)

Task(k, p) == [k |-> k, p |-> p]
NoTask == Task("none", 0)
Orch == Task("orch", 0)
Mon == Task("mon", 0)
Cl(p) == Task("cl", p)
Rd(p) == Task("rd", p)

InReady(t) == \E i \in 1 .. Len(ready) : ready[i] = t

\* call_soon: schedule the task's next step unless one is already scheduled
Schedule(q, t) == IF \E i \in 1 .. Len(q) : q[i] = t THEN q ELSE Append(q, t)

RECURSIVE ScheduleAll(_, _)
ScheduleAll(q, ts) ==
  IF ts = <<>> THEN q ELSE ScheduleAll(Schedule(q, Head(ts)), Tail(ts))

\* ---- PerformanceMetrics -------------------------------------------------
NewMetrics ==
  [messages_sent |-> 0, messages_received |-> 0, bytes_sent |-> 0,
   bytes_received |-> 0, errors |-> 0, connections |-> 0,
   connection_errors |-> 0, latencies |-> <<>>, start_time |-> 0]

\* len(json.dumps(message)): the three kinds have payloads of different size
PayloadLen(kind) ==
  CASE kind = "connect" -> 3
    [] kind = "move" -> 2
    [] kind = "disconnect" -> 1

\* packet = struct.pack('!I', len(data)) + data
PacketLen(kind) == HEADER_LEN + PayloadLen(kind)

\* `=` written for `+=`
RecordSentAssigned(m, kind) ==
  [m EXCEPT !.messages_sent = 1, !.bytes_sent = PacketLen(kind)]

\* an update computed from a stale read of the counters
RecordSentLost(m, kind) ==
  [m EXCEPT !.messages_sent = IF @ = 0 THEN 1 ELSE @,
            !.bytes_sent = IF @ = 0 THEN PacketLen(kind) ELSE @]

\* messages_sent += 1; bytes_sent += len(packet)
RecordSent(m, kind) ==
  [m EXCEPT !.messages_sent = @ + 1, !.bytes_sent = @ + PacketLen(kind)]

\* a failure counted both where it is caught and by the caller
RecordErrorTwice(m) == [m EXCEPT !.errors = @ + 2]

\* errors += 1
RecordError(m) == [m EXCEPT !.errors = @ + 1]

\* a connection that is counted twice
RecordConnectionTwice(m) == [m EXCEPT !.connections = @ + 2]

\* connections += 1
RecordConnection(m) == [m EXCEPT !.connections = @ + 1]

\* connection_errors += 1
RecordConnectionError(m) == [m EXCEPT !.connection_errors = @ + 1]

\* a receive count that leaves the length prefix out
RecordReceivedBody(m, len) ==
  [m EXCEPT !.messages_received = @ + 1, !.bytes_received = @ + len]

\* messages_received += 1; bytes_received += len(length_data) + len(message_data)
RecordReceived(m, len) ==
  [m EXCEPT !.messages_received = @ + 1,
            !.bytes_received = @ + HEADER_LEN + len]

\* ---- derived values, print_results, evaluate_performance ----------------
\* a / b of two numbers, kept as the fraction; Python raises
\* ZeroDivisionError when b is 0
Frac(a, b) == [num |-> a, den |-> b]

Raises(q) == q.den = 0

\* q >= n and q <= n for a whole number n, q < a / b, q >= a / b
AtLeast(q, n) == q.num >= n * q.den
AtMost(q, n) == q.num <= n * q.den
Below(q, a, b) == q.num * b < a * q.den
NotBelow(q, a, b) == q.num * b >= a * q.den

\* a divisor that is not guarded
Max1Unguarded(n) == n

\* max(1, n)
Max1(n) == IF n > 1 THEN n ELSE 1

RECURSIVE SumSeq(_)
\* sum(latencies)
SumSeq(s) == IF s = <<>> THEN 0 ELSE Head(s) + SumSeq(Tail(s))

\* the properties of PerformanceMetrics; `elapsed` is time.time() - start_time
avg_latency(m) ==
  IF m.latencies # <<>> THEN Frac(SumSeq(m.latencies), Len(m.latencies))
  ELSE Frac(0, 1)

\* min(self.latencies) if self.latencies else 0
min_latency(m) ==
  IF m.latencies # <<>>
    THEN CHOOSE x \in {m.latencies[i] : i \in 1 .. Len(m.latencies)} :
           \A i \in 1 .. Len(m.latencies) : x <= m.latencies[i]
    ELSE 0

\* max(self.latencies) if self.latencies else 0
max_latency(m) ==
  IF m.latencies # <<>>
    THEN CHOOSE x \in {m.latencies[i] : i \in 1 .. Len(m.latencies)} :
           \A i \in 1 .. Len(m.latencies) : x >= m.latencies[i]
    ELSE 0

\* a rate that takes the count for the rate, whatever time has passed
messages_per_secondWhole(m, elapsed) == Frac(m.messages_sent, 1)

messages_per_second(m, elapsed) ==
  IF elapsed > 0 THEN Frac(m.messages_sent, elapsed) ELSE Frac(0, 1)

\* errors / max(1, messages_sent)
error_rate(m) == Frac(m.errors, Max1(m.messages_sent))

\* connections / max(1, TOTAL_PLAYERS)
connection_rate(m, total) == Frac(m.connections, Max1(total))

\* print_results: connections / (connections + max(1, connection_errors))
success_rate(m) ==
  Frac(m.connections, m.connections + Max1(m.connection_errors))

\* the stream tester's throughput axis for both testers
ThroughputPointsStream(t, q) ==
  IF AtLeast(q, 5000) THEN 25 ELSE IF AtLeast(q, 2000) THEN 20 ELSE 10

\* an error axis whose worst tier earns nothing
ErrorPointsNone(t, q) ==
  IF Below(q, 1, 1000) THEN (IF t = "udp" THEN 40 ELSE 25)
  ELSE IF Below(q, 1, 100) THEN (IF t = "udp" THEN 25 ELSE 20) ELSE 0

\* a latency axis that gives an unmeasured latency its worst tier
LatencyPointsMeasured(t, q) ==
  IF q.num = 0 THEN 10
  ELSE IF AtMost(q, 50) THEN (IF t = "udp" THEN 30 ELSE 25)
  ELSE IF AtMost(q, 100) THEN 20 ELSE 10

\* the points of the four axes of evaluate_performance (the datagram tester
\* has no connection axis)
ThroughputPoints(t, q) ==
  IF t = "udp"
    THEN IF AtLeast(q, 10000) THEN 30 ELSE IF AtLeast(q, 5000) THEN 20 ELSE 10
    ELSE IF AtLeast(q, 5000) THEN 25 ELSE IF AtLeast(q, 2000) THEN 20 ELSE 10

LatencyPoints(t, q) ==
  IF AtMost(q, 50) THEN (IF t = "udp" THEN 30 ELSE 25)
  ELSE IF AtMost(q, 100) THEN 20 ELSE 10

ConnectionPoints(t, q) ==
  IF t = "udp" THEN 0
  ELSE IF NotBelow(q, 9, 10) THEN 25 ELSE IF NotBelow(q, 7, 10) THEN 20 ELSE 10

ErrorPoints(t, q) ==
  IF Below(q, 1, 1000) THEN (IF t = "udp" THEN 40 ELSE 25)
  ELSE IF Below(q, 1, 100) THEN (IF t = "udp" THEN 25 ELSE 20) ELSE 10

\* what the `max_score +=` lines add up to
MaxScore(t) == IF t = "udp" THEN 30 + 30 + 40 ELSE 25 + 25 + 25 + 25

\* grade bands that begin above their thresholds
GradeStrict(total) ==
  IF total.num > 80 * total.den THEN "A"
  ELSE IF total.num > 60 * total.den THEN "B" ELSE "C"

\* total_score >= 80: A; >= 60: B; else C
Grade(total) ==
  IF AtLeast(total, 80) THEN "A" ELSE IF AtLeast(total, 60) THEN "B" ELSE "C"

evaluate_performance(t, m, elapsed, total) ==
  LET points == [throughput |-> ThroughputPoints(t, messages_per_second(m, elapsed)),
                 latency |-> LatencyPoints(t, avg_latency(m)),
                 connection |-> ConnectionPoints(t, connection_rate(m, total)),
                 error |-> ErrorPoints(t, error_rate(m))]
      score == points.throughput + points.latency + points.connection
               + points.error
      total_score == Frac(score * 100, MaxScore(t))
  IN [points |-> points, score |-> score, max_score |-> MaxScore(t),
      total_score |-> total_score, grade |-> Grade(total_score)]

\* the values of time.time() - start_time the report is computed for
ElapsedValues == {0, 1, 10, 30}

\* print_results, which ends with evaluate_performance: the figures printed,
\* and whether one of the divisions raised
PrintResults(t, m, elapsed, total) ==
  [elapsed |-> elapsed,
   messages_sent |-> m.messages_sent,
   errors |-> m.errors,
   connections |-> m.connections,
   samples |-> Len(m.latencies),
   messages_per_second |-> messages_per_second(m, elapsed),
   avg_latency |-> avg_latency(m),
   min_latency |-> min_latency(m),
   max_latency |-> max_latency(m),
   error_rate |-> error_rate(m),
   eval |-> evaluate_performance(t, m, elapsed, total),
   raised |-> \/ Raises(messages_per_second(m, elapsed))
              \/ Raises(avg_latency(m))
              \/ Raises(error_rate(m))
              \/ t = "tcp" /\ Raises(success_rate(m))
              \/ t = "tcp" /\ Raises(connection_rate(m, total))
              \/ MaxScore(t) = 0]

NoReport == [raised |-> FALSE]

\* evaluate_performance was not called a second time
NoEval == [grade |-> "none"]

\* ---- create_players -----------------------------------------------------
RECURSIVE BuildPlayersById(_, _, _, _)
\* players whose room is their own number
BuildPlayersById(rooms, per, room_id, player_idx) ==
  IF room_id >= rooms THEN <<>>
  ELSE IF player_idx >= per THEN BuildPlayersById(rooms, per, room_id + 1, 0)
  ELSE <<[player_id |-> room_id * per + player_idx,
          room_id |-> room_id * per + player_idx]>>
       \o BuildPlayersById(rooms, per, room_id, player_idx + 1)

RECURSIVE BuildPlayersOneRoom(_, _, _, _)
\* players that all go to the first room
BuildPlayersOneRoom(rooms, per, room_id, player_idx) ==
  IF room_id >= rooms THEN <<>>
  ELSE IF player_idx >= per THEN BuildPlayersOneRoom(rooms, per, room_id + 1, 0)
  ELSE <<[player_id |-> room_id * per + player_idx, room_id |-> 0]>>
       \o BuildPlayersOneRoom(rooms, per, room_id, player_idx + 1)

\* player_id = room_id * PLAYERS_PER_ROOM + player_idx, rooms outermost
RECURSIVE BuildPlayers(_, _, _, _)
BuildPlayers(rooms, per, room_id, player_idx) ==
  IF room_id >= rooms THEN <<>>
  ELSE IF player_idx >= per THEN BuildPlayers(rooms, per, room_id + 1, 0)
  ELSE <<[player_id |-> room_id * per + player_idx, room_id |-> room_id]>>
       \o BuildPlayers(rooms, per, room_id, player_idx + 1)

Population == {players[i].player_id : i \in 1 .. Len(players)}

\* history of a player: `calls` counts the send_message calls that began,
\* `sends` those that ended and `last` is how the latest ended; `first` is
\* how the connect message's call ended; `failed_tick` is the tick of the
\* first failed move; `stopped`: stop() was called; `after_stop` counts the
\* ticks begun since.  What the player's tasks added to the shared metrics:
\* `sent` messages (`moves` of them move messages) of `bytes` bytes,
\* `failures` errors and `samples` latency samples, `conns` connections and
\* `conn_errs` connection errors; `order` lists the messages send_message
\* was asked to put on the player's transport
NoHistory ==
  [calls |-> 0, sends |-> 0, last |-> <<"none", "none">>, first |-> "none",
   failed_tick |-> 0, stopped |-> FALSE, after_stop |-> 0,
   sent |-> 0, moves |-> 0, bytes |-> 0, failures |-> 0, samples |-> 0,
   conns |-> 0, conn_errs |-> 0, order |-> <<>>]

\* a manager and its players as constructed, before run_test's first step
Start ==
  /\ transport \in {"udp", "tcp"}
  /\ NUM_ROOMS \in 1 .. MaxRooms
  /\ PLAYERS_PER_ROOM \in 1 .. MaxPerRoom
  /\ batch_size \in 1 .. MaxBatch
  /\ players = <<>>
  /\ mgr_running = TRUE
  /\ opc = "create"
  /\ next_i = 0
  /\ staggers = 0
  /\ is_running = [p \in Ids |-> TRUE]
  /\ connected = [p \in Ids |-> FALSE]
  /\ res = [p \in Ids |-> "none"]
  /\ io = [p \in Ids |-> "none"]
  /\ pc = [p \in Ids |-> "unborn"]
  /\ msg = [p \in Ids |-> "none"]
  /\ exc = [p \in Ids |-> FALSE]
  /\ ccancel = [p \in Ids |-> FALSE]
  /\ ticks = [p \in Ids |-> 0]
  /\ rpc = [p \in Ids |-> "none"]
  /\ rcancel = [p \in Ids |-> FALSE]
  /\ rlen = [p \in Ids |-> 0]
  /\ rwake = [p \in Ids |-> "none"]
  /\ mpc = "none"
  /\ mcancel = FALSE
  /\ shown = [ramp |-> FALSE, run |-> FALSE, shutdown |-> FALSE]
  /\ events = 0
  /\ interrupted = FALSE
  /\ ready = <<>>
  /\ todo = 0
  /\ cur = Orch
  /\ log = [p \in Ids |-> <<>>]
  /\ hist = [p \in Ids |-> NoHistory]

NoMove == [position |-> <<0, 0, 0>>, velocity |-> <<0, 0, 0>>,
           resampled |-> FALSE]

\* Spec does not follow the motion of the players
Parked ==
  /\ position = <<0, 0, 0>>
  /\ velocity = <<0, 0, 0>>
  /\ moved = 0
  /\ last_move = NoMove

Init ==
  /\ Start
  /\ NUM_ROOMS * PLAYERS_PER_ROOM <= MaxPlayers
  /\ reported = FALSE
  /\ report = NoReport
  /\ rescored = NoEval
  /\ metrics = NewMetrics
  /\ Parked
\* ---- the event loop -----------------------------------------------------
LiveCl(p) == pc[p] \notin {"unborn", "done", "failed", "cancelled"}
LiveRd(p) == rpc[p] \notin {"none", "done"}
LiveMon == mpc \notin {"none", "done", "cancelled"}

\* suspended at an await and not yet rescheduled
ClBlocked(p) ==
  /\ pc[p] \in {"open_conn", "drain", "sleep", "wait_closed"}
  /\ cur # Cl(p)
  /\ ~InReady(Cl(p))
RdBlocked(p) == rpc[p] \in {"hdr", "body"} /\ cur # Rd(p) /\ ~InReady(Rd(p))
OrchBlocked ==
  /\ opc \in {"ramp_sleep", "run_sleep", "gather"}
  /\ cur # Orch
  /\ ~InReady(Orch)
MonBlocked == mpc = "sleep" /\ cur # Mon /\ ~InReady(Mon)

ClientTasks == [i \in 1 .. Len(players) |-> Cl(players[i].player_id)]
ReadTasks == [i \in 1 .. Len(players) |-> Rd(players[i].player_id)]
LiveClientTasks == SelectSeq(ClientTasks, LAMBDA t : LiveCl(t.p))
LiveReadTasks == SelectSeq(ReadTasks, LAMBDA t : LiveRd(t.p))

\* One iteration of the loop runs the steps that were scheduled when it
\* began; those scheduled meanwhile wait for the next iteration.  Timers and
\* socket events are collected between two iterations.
AtBoundary == cur = NoTask /\ todo = 0

Dispatch ==
  /\ cur = NoTask
  /\ ready # <<>>
  /\ cur' = Head(ready)
  /\ ready' = Tail(ready)
  /\ todo' = IF todo = 0 THEN Len(ready) - 1 ELSE todo - 1
  /\ UNCHANGED <<transport, NUM_ROOMS, PLAYERS_PER_ROOM, batch_size, players,
                 mgr_running, opc, next_i, staggers, reported, report,
                 rescored, metrics, is_running, connected, res, io, pc, msg,
                 exc, ccancel, ticks, position, velocity, moved, last_move,
                 rpc, rcancel, rlen, rwake, mpc, mcancel, shown, events,
                 interrupted, log, hist>>

\* a timer set by asyncio.sleep comes due.  A player's tick timer is capped:
\* after MaxTicks ticks it comes due only once the player was told to end.
TimerDue(t) ==
  \/ t = Orch /\ OrchBlocked /\ opc \in {"ramp_sleep", "run_sleep"}
  \/ t = Mon /\ MonBlocked
  \/ /\ t.k = "cl"
     /\ ClBlocked(t.p)
     /\ pc[t.p] = "sleep"
     /\ (ticks[t.p] < MaxTicks \/ ~is_running[t.p])

TimerFires(t) ==
  /\ AtBoundary
  /\ TimerDue(t)
  /\ ready' = Append(ready, t)
  /\ UNCHANGED <<transport, NUM_ROOMS, PLAYERS_PER_ROOM, batch_size, players,
                 mgr_running, opc, next_i, staggers, reported, report,
                 rescored, metrics, is_running, connected, res, io, pc, msg,
                 exc, ccancel, ticks, position, velocity, moved, last_move,
                 rpc, rcancel, rlen, rwake, mpc, mcancel, shown, events,
                 interrupted, todo, cur, log, hist>>

\* The environment acts on a run at most MaxEvents times: a socket operation
\* that fails or has to wait, an inbound frame (well-formed or not), the
\* interrupt.  What it may still do to a socket operation:
IoResults == IF events < MaxEvents THEN {"ok", "err"} ELSE {"ok"}

Cost(r) == IF r = "ok" THEN 0 ELSE 1

\* the socket operation a player's task awaits (open_connection, or drain)
\* completes or fails; the task sees the result when it resumes
IoCompletes(p) ==
  /\ AtBoundary
  /\ ClBlocked(p)
  /\ pc[p] \in {"open_conn", "drain"}
  /\ \E r \in IoResults :
       /\ io' = [io EXCEPT ![p] = r]
       /\ events' = events + Cost(r)
  /\ ready' = Append(ready, Cl(p))
  /\ UNCHANGED <<transport, NUM_ROOMS, PLAYERS_PER_ROOM, batch_size, players,
                 mgr_running, opc, next_i, staggers, reported, report,
                 rescored, metrics, is_running, connected, res, pc, msg, exc,
                 ccancel, ticks, position, velocity, moved, last_move, rpc,
                 rcancel, rlen, rwake, mpc, mcancel, shown, interrupted,
                 todo, cur, log, hist>>

\* length fields a peer may send
InboundLens == {MAX_FRAME, MAX_FRAME + 1}

\* what a read of the suspended reader may return: the bytes asked for,
\* only a part of them, none because the peer ended the stream, or an error
ReadResults == {"data", "partial", "eof", "error"}

\* a frame begins with its length field; its body follows
Arrivals(p) ==
  IF rpc[p] = "hdr"
    THEN IF events < MaxEvents
           THEN {[wake |-> w, len |-> n, event |-> 1] :
                   w \in ReadResults, n \in InboundLens}
           ELSE {}
    ELSE {[wake |-> w, len |-> rlen[p], event |-> 0] : w \in ReadResults}

DataArrives(p) ==
  /\ AtBoundary
  /\ RdBlocked(p)
  /\ res[p] = "open"
  /\ \E a \in Arrivals(p) :
       /\ rwake' = [rwake EXCEPT ![p] = a.wake]
       /\ rlen' = [rlen EXCEPT ![p] = IF a.wake = "data" THEN a.len ELSE @]
       /\ events' = events + a.event
  /\ ready' = Append(ready, Rd(p))
  /\ UNCHANGED <<transport, NUM_ROOMS, PLAYERS_PER_ROOM, batch_size, players,
                 mgr_running, opc, next_i, staggers, reported, report,
                 rescored, metrics, is_running, connected, res, io, pc, msg,
                 exc, ccancel, ticks, position, velocity, moved, last_move,
                 rpc, rcancel, mpc, mcancel, shown, interrupted, todo, cur,
                 log, hist>>

\* a closed stream still has its connection_lost callback to deliver
ClosePending(p) ==
  /\ transport = "tcp"
  /\ res[p] = "closed"
  /\ RdBlocked(p) \/ (ClBlocked(p) /\ pc[p] = "wait_closed")

\* a connection_lost that leaves the reader waiting
ReaderLeftWaiting(p) == FALSE

\* the reader whose `await self.reader.read(...)` the end of the stream wakes
ReaderFed(p) == RdBlocked(p)

\* after writer.close() the transport calls connection_lost(exc): it ends
\* the reader's stream (feed_eof, or set_exception) and then completes the
\* close waiter that wait_closed awaits
ConnectionLost(p) ==
  /\ AtBoundary
  /\ ClosePending(p)
  /\ \E r \in IoResults :
       /\ rwake' = IF ReaderFed(p)
                     THEN [rwake EXCEPT ![p] = IF r = "ok" THEN "eof" ELSE "error"]
                     ELSE rwake
       /\ io' = IF ClBlocked(p) /\ pc[p] = "wait_closed"
                  THEN [io EXCEPT ![p] = r] ELSE io
       /\ events' = events + Cost(r)
  /\ ready' =
       LET q1 == IF ReaderFed(p) THEN Append(ready, Rd(p)) ELSE ready
       IN IF ClBlocked(p) /\ pc[p] = "wait_closed"
            THEN Append(q1, Cl(p)) ELSE q1
  /\ UNCHANGED <<transport, NUM_ROOMS, PLAYERS_PER_ROOM, batch_size, players,
                 mgr_running, opc, next_i, staggers, reported, report,
                 rescored, metrics, is_running, connected, res, pc, msg, exc,
                 ccancel, ticks, position, velocity, moved, last_move, rpc,
                 rcancel, rlen, mpc, mcancel, shown, interrupted, todo, cur,
                 log, hist>>

\* a wait that is over as soon as one of the tasks is
AnyTaskDone == \E i \in 1 .. Len(players) : ~LiveCl(players[i].player_id)

\* asyncio.gather(*tasks, return_exceptions=True) completes
AllTasksDone == \A i \in 1 .. Len(players) : ~LiveCl(players[i].player_id)

GatherDone ==
  /\ AtBoundary
  /\ OrchBlocked
  /\ opc = "gather"
  /\ AllTasksDone
  /\ ready' = Append(ready, Orch)
  /\ UNCHANGED <<transport, NUM_ROOMS, PLAYERS_PER_ROOM, batch_size, players,
                 mgr_running, opc, next_i, staggers, reported, report,
                 rescored, metrics, is_running, connected, res, io, pc, msg,
                 exc, ccancel, ticks, position, velocity, moved, last_move,
                 rpc, rcancel, rlen, rwake, mpc, mcancel, shown, events,
                 interrupted, todo, cur, log, hist>>

\* ---- LoadTestManager.run_test -------------------------------------------
CreatePlayers ==
  /\ cur = Orch
  /\ opc = "create"
  /\ players' = BuildPlayers(NUM_ROOMS, PLAYERS_PER_ROOM, 0, 0)
  /\ opc' = "ramp"
  /\ UNCHANGED <<transport, NUM_ROOMS, PLAYERS_PER_ROOM, batch_size,
                 mgr_running, next_i, staggers, reported, report, rescored,
                 metrics, is_running, connected, res, io, pc, msg, exc,
                 ccancel, ticks, position, velocity, moved, last_move, rpc,
                 rcancel, rlen, rwake, mpc, mcancel, shown, events,
                 interrupted, ready, todo, cur, log, hist>>

\* a slice that is one player too long
BatchOffByOne(i) ==
  SubSeq(players, i + 1,
         IF i + batch_size + 1 < Len(players) THEN i + batch_size + 1
         ELSE Len(players))

\* a slice with no upper end
BatchAll(i) == SubSeq(players, i + 1, Len(players))

\* self.players[i:i+batch_size]
Batch(i) ==
  SubSeq(players, i + 1,
         IF i + batch_size < Len(players) THEN i + batch_size ELSE Len(players))

\* one round of the batch loop: create_task(player.run()) for every player of
\* the batch, then await asyncio.sleep(0.1)
StartBatch ==
  /\ cur = Orch
  /\ opc = "ramp"
  /\ next_i < Len(players)
  /\ LET batch == Batch(next_i)
         ids == {batch[j].player_id : j \in 1 .. Len(batch)}
     IN /\ pc' = [p \in Ids |-> IF p \in ids THEN "start" ELSE pc[p]]
        /\ ready' = ready \o [j \in 1 .. Len(batch) |-> Cl(batch[j].player_id)]
  /\ next_i' = next_i + batch_size
  /\ opc' = "ramp_sleep"
  /\ cur' = NoTask
  /\ UNCHANGED <<transport, NUM_ROOMS, PLAYERS_PER_ROOM, batch_size, players,
                 mgr_running, staggers, reported, report, rescored, metrics,
                 is_running, connected, res, io, msg, exc, ccancel, ticks,
                 position, velocity, moved, last_move, rpc, rcancel, rlen,
                 rwake, mpc, mcancel, shown, events, interrupted, todo, log,
                 hist>>

\* the pause after a batch is over
RampResume ==
  /\ cur = Orch
  /\ opc = "ramp_sleep"
  /\ opc' = "ramp"
  /\ staggers' = staggers + 1
  /\ UNCHANGED <<transport, NUM_ROOMS, PLAYERS_PER_ROOM, batch_size, players,
                 mgr_running, next_i, reported, report, rescored, metrics,
                 is_running, connected, res, io, pc, msg, exc, ccancel,
                 ticks, position, velocity, moved, last_move, rpc, rcancel,
                 rlen, rwake, mpc, mcancel, shown, events, interrupted,
                 ready, todo, cur, log, hist>>

\* after the last batch: create_task(self.monitor_stats()), then
\* await asyncio.sleep(TEST_DURATION)
StartMonitor ==
  /\ cur = Orch
  /\ opc = "ramp"
  /\ next_i >= Len(players)
  /\ mpc' = "start"
  /\ ready' = Append(ready, Mon)
  /\ opc' = "run_sleep"
  /\ cur' = NoTask
  /\ UNCHANGED <<transport, NUM_ROOMS, PLAYERS_PER_ROOM, batch_size, players,
                 mgr_running, next_i, staggers, reported, report, rescored,
                 metrics, is_running, connected, res, io, pc, msg, exc,
                 ccancel, ticks, position, velocity, moved, last_move, rpc,
                 rcancel, rlen, rwake, mcancel, shown, events, interrupted,
                 todo, log, hist>>

\* player.stop() for every player
StopAll(f) == [p \in Ids |-> IF p \in Population THEN FALSE ELSE f[p]]

\* the stream tester also calls task.cancel() on every player task
CancelTasks(f) ==
  IF transport = "tcp"
    THEN [p \in Ids |-> IF p \in Population /\ LiveCl(p) THEN TRUE ELSE f[p]]
    ELSE f

CancelSchedule(q) ==
  IF transport = "tcp" THEN ScheduleAll(q, LiveClientTasks) ELSE q

\* the test duration is over: is_running = False, stop (and cancel) the
\* players, await asyncio.gather(*tasks, return_exceptions=True)
Shutdown ==
  /\ cur = Orch
  /\ opc = "run_sleep"
  /\ mgr_running' = FALSE
  /\ is_running' = StopAll(is_running)
  /\ ccancel' = CancelTasks(ccancel)
  /\ ready' = CancelSchedule(ready)
  /\ hist' = [p \in Ids |->
                IF p \in Population THEN [hist[p] EXCEPT !.stopped = TRUE]
                ELSE hist[p]]
  /\ opc' = "gather"
  /\ cur' = NoTask
  /\ UNCHANGED <<transport, NUM_ROOMS, PLAYERS_PER_ROOM, batch_size, players,
                 next_i, staggers, reported, report, rescored, metrics,
                 connected, res, io, pc, msg, exc, ticks, position, velocity,
                 moved, last_move, rpc, rcancel, rlen, rwake, mpc, mcancel,
                 shown, events, interrupted, todo, log>>

\* gather returned: monitor_task.cancel(), then print_results() (which ends
\* with evaluate_performance())
Report ==
  /\ cur = Orch
  /\ opc = "gather"
  /\ mcancel' = (mcancel \/ LiveMon)
  /\ ready' = IF LiveMon THEN Schedule(ready, Mon) ELSE ready
  /\ \E elapsed \in ElapsedValues :
       report' = PrintResults(transport, metrics, elapsed,
                              NUM_ROOMS * PLAYERS_PER_ROOM)
  /\ reported' = ~report'.raised
  /\ opc' = "exit"
  /\ UNCHANGED <<transport, NUM_ROOMS, PLAYERS_PER_ROOM, batch_size, players,
                 mgr_running, next_i, staggers, rescored, metrics,
                 is_running, connected, res, io, pc, msg, exc, ccancel,
                 ticks, position, velocity, moved, last_move, rpc, rcancel,
                 rlen, rwake, mpc, shown, events, interrupted, todo, cur,
                 log, hist>>

\* asyncio.run cancels every task that is still pending
CancelRemaining ==
  /\ ccancel' = [p \in Ids |-> ccancel[p] \/ LiveCl(p)]
  /\ rcancel' = [p \in Ids |-> rcancel[p] \/ LiveRd(p)]
  /\ mcancel' = (mcancel \/ LiveMon)
  /\ ready' =
       LET q0 == SelectSeq(ready, LAMBDA t : t # Orch)
           q1 == ScheduleAll(q0, LiveClientTasks)
           q2 == ScheduleAll(q1, LiveReadTasks)
       IN IF LiveMon THEN Schedule(q2, Mon) ELSE q2

\* main() returns, asyncio.run closes the loop
Exit ==
  /\ cur = Orch
  /\ opc = "exit"
  /\ opc' = "done"
  /\ cur' = NoTask
  /\ CancelRemaining
  /\ UNCHANGED <<transport, NUM_ROOMS, PLAYERS_PER_ROOM, batch_size, players,
                 mgr_running, next_i, staggers, reported, report, rescored,
                 metrics, is_running, connected, res, io, pc, msg, exc,
                 ticks, position, velocity, moved, last_move, rpc, rlen,
                 rwake, mpc, shown, events, interrupted, todo, log, hist>>

\* SIGINT while the loop waits: run_test is abandoned at its await (main's
\* handler only prints a line), and asyncio.run cancels what is pending
Interrupt ==
  /\ AtBoundary
  /\ ~interrupted
  /\ events < MaxEvents
  /\ opc \in {"ramp_sleep", "run_sleep", "gather"}
  /\ interrupted' = TRUE
  /\ events' = events + 1
  /\ opc' = "aborted"
  /\ CancelRemaining
  /\ UNCHANGED <<transport, NUM_ROOMS, PLAYERS_PER_ROOM, batch_size, players,
                 mgr_running, next_i, staggers, reported, report, rescored,
                 metrics, is_running, connected, res, io, pc, msg, exc,
                 ticks, position, velocity, moved, last_move, rpc, rlen,
                 rwake, mpc, shown, todo, cur, log, hist>>

\* ---- VirtualPlayer ------------------------------------------------------

\* update_position that takes no sample after its send
AfterSendUntimed(kind) ==
  CASE kind = "connect" -> "connected"
    [] kind = "move" -> "sleep"
    [] kind = "disconnect" -> "close"

\* a disconnect after which the player goes back to its loop
AfterSendRejoin(kind) ==
  CASE kind = "connect" -> "connected"
    [] kind = "move" -> "latency"
    [] kind = "disconnect" -> "loop"

\* where send_message returns to: connect (then run's try block),
\* update_position, or disconnect
AfterSend(kind) ==
  CASE kind = "connect" -> "connected"
    [] kind = "move" -> "latency"
    [] kind = "disconnect" -> "close"

\* tcp: `if not self.writer or not self.connected: return`
SendSkipped(p) == transport = "tcp" /\ (res[p] = "none" \/ ~connected[p])

\* sendto either returns or raises; drain may also have to wait
SendResults ==
  IF events < MaxEvents
    THEN IF transport = "tcp" THEN {"ok", "err", "suspend"} ELSE {"ok", "err"}
    ELSE {"ok"}

\* the packet reached the transport: writer.write ran, or sendto returned
Emitted(o) == transport = "tcp" \/ o = "ok"

\* history: the player's send_message call for `kind` ended with `result`
SendEnded(h, p, kind, result) ==
  [h EXCEPT ![p] =
     [@ EXCEPT !.sends = @ + 1,
               !.last = <<kind, result>>,
               !.first = IF kind = "connect" THEN result ELSE @,
               !.failed_tick = IF kind = "move" /\ result = "err" /\ @ = 0
                                 THEN ticks[p] ELSE @,
               !.sent = IF result = "ok" THEN @ + 1 ELSE @,
               !.moves = IF result = "ok" /\ kind = "move" THEN @ + 1 ELSE @,
               !.bytes = IF result = "ok" THEN @ + PacketLen(kind) ELSE @,
               !.failures = IF result = "err" THEN @ + 1 ELSE @]]

\* history: a send_message call of the player began
SendBegun(h, p) == [h EXCEPT ![p].calls = @ + 1]

\* history: send_message puts a message of that kind on the transport
SendTried(h, p, kind) == [h EXCEPT ![p].order = Append(@, kind)]

\* history: the player's connect counted a connection, or a connection error
ConnectCounted(h, p, ok) ==
  IF ok THEN [h EXCEPT ![p].conns = @ + 1]
  ELSE [h EXCEPT ![p].conn_errs = @ + 1]

\* history: a task of the player counted an error outside send_message
Failed(h, p) == [h EXCEPT ![p].failures = @ + 1]

\* a task cancelled before its first step never runs its coroutine
CancelledAtStart(p) ==
  /\ cur = Cl(p)
  /\ pc[p] = "start"
  /\ ccancel[p]
  /\ pc' = [pc EXCEPT ![p] = "cancelled"]
  /\ ccancel' = [ccancel EXCEPT ![p] = FALSE]
  /\ cur' = NoTask
  /\ UNCHANGED <<transport, NUM_ROOMS, PLAYERS_PER_ROOM, batch_size, players,
                 mgr_running, opc, next_i, staggers, reported, report,
                 rescored, metrics, is_running, connected, res, io, msg, exc,
                 ticks, position, velocity, moved, last_move, rpc, rcancel,
                 rlen, rwake, mpc, mcancel, shown, events, interrupted,
                 ready, todo, log, hist>>

\* run() calls connect().  udp: the socket is created (socket.socket may
\* raise: errors += 1, return False).  tcp: await asyncio.open_connection
Connect(p) ==
  /\ cur = Cl(p)
  /\ pc[p] = "start"
  /\ ~ccancel[p]
  /\ IF transport = "tcp"
       THEN /\ pc' = [pc EXCEPT ![p] = "open_conn"]
            /\ cur' = NoTask
            /\ UNCHANGED <<res, msg, metrics, events, hist>>
       ELSE \E r \in IoResults :
              /\ events' = events + Cost(r)
              /\ IF r = "ok"
                   THEN /\ res' = [res EXCEPT ![p] = "open"]
                        /\ msg' = [msg EXCEPT ![p] = "connect"]
                        /\ pc' = [pc EXCEPT ![p] = "send"]
                        /\ UNCHANGED <<metrics, cur, hist>>
                   ELSE /\ metrics' = RecordError(metrics)
                        /\ hist' = Failed(hist, p)
                        /\ pc' = [pc EXCEPT ![p] = "failed"]
                        /\ cur' = NoTask
                        /\ UNCHANGED <<res, msg>>
  /\ UNCHANGED <<transport, NUM_ROOMS, PLAYERS_PER_ROOM, batch_size, players,
                 mgr_running, opc, next_i, staggers, reported, report,
                 rescored, is_running, connected, io, exc, ccancel, ticks,
                 position, velocity, moved, last_move, rpc, rcancel, rlen,
                 rwake, mpc, mcancel, shown, interrupted, ready, todo, log>>

\* tcp: open_connection returned (connected = True; connections += 1) or
\* raised (connection_errors += 1; return False)
Connected(p) ==
  /\ cur = Cl(p)
  /\ pc[p] = "open_conn"
  /\ ~ccancel[p]
  /\ io' = [io EXCEPT ![p] = "none"]
  /\ hist' = ConnectCounted(hist, p, io[p] = "ok")
  /\ IF io[p] = "ok"
       THEN /\ res' = [res EXCEPT ![p] = "open"]
            /\ connected' = [connected EXCEPT ![p] = TRUE]
            /\ metrics' = RecordConnection(metrics)
            /\ msg' = [msg EXCEPT ![p] = "connect"]
            /\ pc' = [pc EXCEPT ![p] = "send"]
            /\ UNCHANGED cur
       ELSE /\ metrics' = RecordConnectionError(metrics)
            /\ pc' = [pc EXCEPT ![p] = "failed"]
            /\ cur' = NoTask
            /\ UNCHANGED <<res, connected, msg>>
  /\ UNCHANGED <<transport, NUM_ROOMS, PLAYERS_PER_ROOM, batch_size, players,
                 mgr_running, opc, next_i, staggers, reported, report,
                 rescored, is_running, exc, ccancel, ticks, position,
                 velocity, moved, last_move, rpc, rcancel, rlen, rwake, mpc,
                 mcancel, shown, events, interrupted, ready, todo, log>>

\* a send whose drain is not awaited
SendNotAwaited(p, o) == AfterSend(msg[p])

\* `await self.writer.drain()`: the call goes on only when drain is over
SendNext(p, o) == IF o = "suspend" THEN "drain" ELSE AfterSend(msg[p])

\* send_message: frame the message and hand it to the transport.  Success
\* counts the message and its bytes, an exception counts one error; in both
\* cases the call returns normally
SendMessage(p) ==
  /\ cur = Cl(p)
  /\ pc[p] = "send"
  /\ IF SendSkipped(p)
       THEN /\ pc' = [pc EXCEPT ![p] = AfterSend(msg[p])]
            /\ hist' = SendEnded(SendBegun(hist, p), p, msg[p], "skipped")
            /\ UNCHANGED <<metrics, log, cur, events>>
       ELSE \E o \in SendResults :
              /\ events' = events + Cost(o)
              /\ log' = IF Emitted(o)
                          THEN [log EXCEPT ![p] = Append(@, msg[p])]
                          ELSE log
              /\ hist' = IF o = "suspend"
                           THEN SendTried(SendBegun(hist, p), p, msg[p])
                         ELSE SendEnded(SendTried(SendBegun(hist, p), p,
                                                  msg[p]), p, msg[p], o)
              /\ metrics' = CASE o = "ok" -> RecordSent(metrics, msg[p])
                              [] o = "err" -> RecordError(metrics)
                              [] o = "suspend" -> metrics
              /\ pc' = [pc EXCEPT ![p] = SendNext(p, o)]
              /\ cur' = IF o = "suspend" THEN NoTask ELSE cur
  /\ UNCHANGED <<transport, NUM_ROOMS, PLAYERS_PER_ROOM, batch_size, players,
                 mgr_running, opc, next_i, staggers, reported, report,
                 rescored, is_running, connected, res, io, msg, exc, ccancel,
                 ticks, position, velocity, moved, last_move, rpc, rcancel,
                 rlen, rwake, mpc, mcancel, shown, interrupted, ready, todo>>

\* tcp: drain() returns or raises after having waited
Drained(p) ==
  /\ cur = Cl(p)
  /\ pc[p] = "drain"
  /\ ~ccancel[p]
  /\ io' = [io EXCEPT ![p] = "none"]
  /\ metrics' = IF io[p] = "ok" THEN RecordSent(metrics, msg[p])
                ELSE RecordError(metrics)
  /\ hist' = SendEnded(hist, p, msg[p], io[p])
  /\ pc' = [pc EXCEPT ![p] = AfterSend(msg[p])]
  /\ UNCHANGED <<transport, NUM_ROOMS, PLAYERS_PER_ROOM, batch_size, players,
                 mgr_running, opc, next_i, staggers, reported, report,
                 rescored, is_running, connected, res, msg, exc, ccancel,
                 ticks, position, velocity, moved, last_move, rpc, rcancel,
                 rlen, rwake, mpc, mcancel, shown, events, interrupted,
                 ready, todo, cur, log>>

\* connect returned True: run enters its try block; tcp starts the reader
\* with create_task(self.read_messages())
EnterLoop(p) ==
  /\ cur = Cl(p)
  /\ pc[p] = "connected"
  /\ pc' = [pc EXCEPT ![p] = "loop"]
  /\ IF transport = "tcp"
       THEN /\ rpc' = [rpc EXCEPT ![p] = "start"]
            /\ ready' = Append(ready, Rd(p))
       ELSE UNCHANGED <<rpc, ready>>
  /\ UNCHANGED <<transport, NUM_ROOMS, PLAYERS_PER_ROOM, batch_size, players,
                 mgr_running, opc, next_i, staggers, reported, report,
                 rescored, metrics, is_running, connected, res, io, msg, exc,
                 ccancel, ticks, position, velocity, moved, last_move,
                 rcancel, rlen, rwake, mpc, mcancel, shown, events,
                 interrupted, todo, cur, log, hist>>

\* a loop that never tests the flag (`while True:`)
LoopsForever(p) == TRUE

\* `while self.is_running:`
KeepsRunning(p) == is_running[p]

\* the loop test holds: update_position moves the player and builds the
\* move message
UpdatePosition(p) ==
  /\ cur = Cl(p)
  /\ pc[p] = "loop"
  /\ KeepsRunning(p)
  /\ ticks' = [ticks EXCEPT ![p] = @ + 1]
  /\ hist' = [hist EXCEPT ![p].after_stop = IF hist[p].stopped THEN @ + 1 ELSE @]
  /\ msg' = [msg EXCEPT ![p] = "move"]
  /\ pc' = [pc EXCEPT ![p] = "send"]
  /\ UNCHANGED <<transport, NUM_ROOMS, PLAYERS_PER_ROOM, batch_size, players,
                 mgr_running, opc, next_i, staggers, reported, report,
                 rescored, metrics, is_running, connected, res, io, exc,
                 ccancel, position, velocity, moved, last_move, rpc, rcancel,
                 rlen, rwake, mpc, mcancel, shown, events, interrupted,
                 ready, todo, cur, log>>

\* the loop test fails: the loop ends (tcp: read_task.cancel()), and the
\* finally clause calls disconnect
LoopExit(p) ==
  /\ cur = Cl(p)
  /\ pc[p] = "loop"
  /\ ~KeepsRunning(p)
  /\ pc' = [pc EXCEPT ![p] = "disconnect"]
  /\ IF transport = "tcp" /\ LiveRd(p)
       THEN /\ rcancel' = [rcancel EXCEPT ![p] = TRUE]
            /\ ready' = Schedule(ready, Rd(p))
       ELSE UNCHANGED <<rcancel, ready>>
  /\ UNCHANGED <<transport, NUM_ROOMS, PLAYERS_PER_ROOM, batch_size, players,
                 mgr_running, opc, next_i, staggers, reported, report,
                 rescored, metrics, is_running, connected, res, io, msg, exc,
                 ccancel, ticks, position, velocity, moved, last_move, rpc,
                 rlen, rwake, mpc, mcancel, shown, events, interrupted, todo,
                 cur, log, hist>>

\* the duration of the send call, in milliseconds
LatencyValues == {1}

\* send_message returned to update_position: the latency sample is appended;
\* back in run: await asyncio.sleep(UPDATE_INTERVAL)
RecordLatency(p) ==
  /\ cur = Cl(p)
  /\ pc[p] = "latency"
  /\ \E ms \in LatencyValues :
       metrics' = [metrics EXCEPT !.latencies = Append(@, ms)]
  /\ hist' = [hist EXCEPT ![p].samples = @ + 1]
  /\ pc' = [pc EXCEPT ![p] = "sleep"]
  /\ cur' = NoTask
  /\ UNCHANGED <<transport, NUM_ROOMS, PLAYERS_PER_ROOM, batch_size, players,
                 mgr_running, opc, next_i, staggers, reported, report,
                 rescored, is_running, connected, res, io, msg, exc, ccancel,
                 ticks, position, velocity, moved, last_move, rpc, rcancel,
                 rlen, rwake, mpc, mcancel, shown, events, interrupted,
                 ready, todo, log>>

\* the tick interval is over
SleepDone(p) ==
  /\ cur = Cl(p)
  /\ pc[p] = "sleep"
  /\ ~ccancel[p]
  /\ pc' = [pc EXCEPT ![p] = "loop"]
  /\ UNCHANGED <<transport, NUM_ROOMS, PLAYERS_PER_ROOM, batch_size, players,
                 mgr_running, opc, next_i, staggers, reported, report,
                 rescored, metrics, is_running, connected, res, io, msg, exc,
                 ccancel, ticks, position, velocity, moved, last_move, rpc,
                 rcancel, rlen, rwake, mpc, mcancel, shown, events,
                 interrupted, ready, todo, cur, log, hist>>

\* CancelledError is raised at the await where the task is suspended.
\* In connect (outside run's try) and in disconnect (inside the finally)
\* it ends the task; in the loop it runs the finally clause first
CancelledTarget(p) ==
  CASE pc[p] = "open_conn" -> "cancelled"
    [] pc[p] = "wait_closed" -> "cancelled"
    [] pc[p] = "sleep" -> "disconnect"
    [] pc[p] = "drain" /\ msg[p] = "move" -> "disconnect"
    [] pc[p] = "drain" /\ msg[p] # "move" -> "cancelled"

Cancelled(p) ==
  /\ cur = Cl(p)
  /\ pc[p] \in {"open_conn", "drain", "sleep", "wait_closed"}
  /\ ccancel[p]
  /\ ccancel' = [ccancel EXCEPT ![p] = FALSE]
  /\ io' = [io EXCEPT ![p] = "none"]
  /\ pc' = [pc EXCEPT ![p] = CancelledTarget(p)]
  /\ exc' = [exc EXCEPT ![p] = TRUE]
  /\ cur' = IF CancelledTarget(p) = "cancelled" THEN NoTask ELSE cur
  /\ hist' = IF pc[p] = "drain" THEN SendEnded(hist, p, msg[p], "cancelled")
             ELSE hist
  /\ UNCHANGED <<transport, NUM_ROOMS, PLAYERS_PER_ROOM, batch_size, players,
                 mgr_running, opc, next_i, staggers, reported, report,
                 rescored, metrics, is_running, connected, res, msg, ticks,
                 position, velocity, moved, last_move, rpc, rcancel, rlen,
                 rwake, mpc, mcancel, shown, events, interrupted, ready,
                 todo, log>>

\* udp: `if self.socket:`; tcp: `if self.writer and self.connected:`
HasTransport(p) ==
  IF transport = "tcp" THEN res[p] # "none" /\ connected[p]
  ELSE res[p] # "none"

\* disconnect: send the disconnect message, if there is a transport
Disconnect(p) ==
  /\ cur = Cl(p)
  /\ pc[p] = "disconnect"
  /\ IF HasTransport(p)
       THEN /\ msg' = [msg EXCEPT ![p] = "disconnect"]
            /\ pc' = [pc EXCEPT ![p] = "send"]
       ELSE /\ pc' = [pc EXCEPT ![p] = "finish"]
            /\ UNCHANGED msg
  /\ UNCHANGED <<transport, NUM_ROOMS, PLAYERS_PER_ROOM, batch_size, players,
                 mgr_running, opc, next_i, staggers, reported, report,
                 rescored, metrics, is_running, connected, res, io, exc,
                 ccancel, ticks, position, velocity, moved, last_move, rpc,
                 rcancel, rlen, rwake, mpc, mcancel, shown, events,
                 interrupted, ready, todo, cur, log, hist>>

\* udp: socket.close().  tcp: writer.close(); await writer.wait_closed()
Close(p) ==
  /\ cur = Cl(p)
  /\ pc[p] = "close"
  /\ res' = [res EXCEPT ![p] = "closed"]
  /\ pc' = [pc EXCEPT ![p] =
              IF transport = "tcp" THEN "wait_closed" ELSE "finish"]
  /\ cur' = IF transport = "tcp" THEN NoTask ELSE cur
  /\ UNCHANGED <<transport, NUM_ROOMS, PLAYERS_PER_ROOM, batch_size, players,
                 mgr_running, opc, next_i, staggers, reported, report,
                 rescored, metrics, is_running, connected, io, msg, exc,
                 ccancel, ticks, position, velocity, moved, last_move, rpc,
                 rcancel, rlen, rwake, mpc, mcancel, shown, events,
                 interrupted, ready, todo, log, hist>>

\* tcp: wait_closed returned (connected = False) or raised (`except
\* Exception: pass`)
Closed(p) ==
  /\ cur = Cl(p)
  /\ pc[p] = "wait_closed"
  /\ ~ccancel[p]
  /\ io' = [io EXCEPT ![p] = "none"]
  /\ connected' = [connected EXCEPT ![p] = IF io[p] = "ok" THEN FALSE ELSE @]
  /\ pc' = [pc EXCEPT ![p] = "finish"]
  /\ UNCHANGED <<transport, NUM_ROOMS, PLAYERS_PER_ROOM, batch_size, players,
                 mgr_running, opc, next_i, staggers, reported, report,
                 rescored, metrics, is_running, res, msg, exc, ccancel,
                 ticks, position, velocity, moved, last_move, rpc, rcancel,
                 rlen, rwake, mpc, mcancel, shown, events, interrupted,
                 ready, todo, cur, log, hist>>

\* run() returns, or re-raises the CancelledError after its finally clause
Finish(p) ==
  /\ cur = Cl(p)
  /\ pc[p] = "finish"
  /\ pc' = [pc EXCEPT ![p] = IF exc[p] THEN "cancelled" ELSE "done"]
  /\ cur' = NoTask
  /\ UNCHANGED <<transport, NUM_ROOMS, PLAYERS_PER_ROOM, batch_size, players,
                 mgr_running, opc, next_i, staggers, reported, report,
                 rescored, metrics, is_running, connected, res, io, msg, exc,
                 ccancel, ticks, position, velocity, moved, last_move, rpc,
                 rcancel, rlen, rwake, mpc, mcancel, shown, events,
                 interrupted, ready, todo, log, hist>>

\* ---- VirtualPlayer.read_messages (tcp) ----------------------------------
\* `while self.is_running and self.connected`
ReadOn(p) == is_running[p] /\ connected[p]

\* `except asyncio.CancelledError: pass`, or cancelled before the first step
ReadCancelled(p) ==
  /\ cur = Rd(p)
  /\ rpc[p] \in {"start", "hdr", "body"}
  /\ rcancel[p]
  /\ rpc' = [rpc EXCEPT ![p] = "done"]
  /\ rwake' = [rwake EXCEPT ![p] = "none"]
  /\ cur' = NoTask
  /\ UNCHANGED <<transport, NUM_ROOMS, PLAYERS_PER_ROOM, batch_size, players,
                 mgr_running, opc, next_i, staggers, reported, report,
                 rescored, metrics, is_running, connected, res, io, pc, msg,
                 exc, ccancel, ticks, position, velocity, moved, last_move,
                 rcancel, rlen, mpc, mcancel, shown, events, interrupted,
                 ready, todo, log, hist>>

\* first step of the task: the loop test, then await self.reader.read(4)
ReadStart(p) ==
  /\ cur = Rd(p)
  /\ rpc[p] = "start"
  /\ ~rcancel[p]
  /\ rpc' = [rpc EXCEPT ![p] = IF ReadOn(p) THEN "hdr" ELSE "done"]
  /\ cur' = NoTask
  /\ UNCHANGED <<transport, NUM_ROOMS, PLAYERS_PER_ROOM, batch_size, players,
                 mgr_running, opc, next_i, staggers, reported, report,
                 rescored, metrics, is_running, connected, res, io, pc, msg,
                 exc, ccancel, ticks, position, velocity, moved, last_move,
                 rcancel, rlen, rwake, mpc, mcancel, shown, events,
                 interrupted, ready, todo, log, hist>>

\* a size check that is missing
HeaderOkNoLimit(p) == rwake[p] = "data"

\* `len(length_data) != 4` and `length > 1024 * 1024` are both false
HeaderOk(p) == rwake[p] = "data" /\ rlen[p] <= MAX_FRAME

\* read(4) returned.  Fewer than 4 bytes, or a length over 1 MiB, end the
\* loop; an exception counts one error; else await self.reader.read(length)
ReadHeader(p) ==
  /\ cur = Rd(p)
  /\ rpc[p] = "hdr"
  /\ ~rcancel[p]
  /\ rwake' = [rwake EXCEPT ![p] = "none"]
  /\ rpc' = [rpc EXCEPT ![p] = IF HeaderOk(p) THEN "body" ELSE "done"]
  /\ metrics' = IF rwake[p] = "error" THEN RecordError(metrics) ELSE metrics
  /\ hist' = IF rwake[p] = "error" THEN Failed(hist, p) ELSE hist
  /\ cur' = NoTask
  /\ UNCHANGED <<transport, NUM_ROOMS, PLAYERS_PER_ROOM, batch_size, players,
                 mgr_running, opc, next_i, staggers, reported, report,
                 rescored, is_running, connected, res, io, pc, msg, exc,
                 ccancel, ticks, position, velocity, moved, last_move,
                 rcancel, rlen, mpc, mcancel, shown, events, interrupted,
                 ready, todo, log>>

\* read(length) returned: a complete body is counted and the loop goes on;
\* a partial one ends the loop; an exception counts one error
ReadBody(p) ==
  /\ cur = Rd(p)
  /\ rpc[p] = "body"
  /\ ~rcancel[p]
  /\ rwake' = [rwake EXCEPT ![p] = "none"]
  /\ rpc' = [rpc EXCEPT ![p] =
               IF rwake[p] = "data" /\ ReadOn(p) THEN "hdr" ELSE "done"]
  /\ metrics' = CASE rwake[p] = "data" -> RecordReceived(metrics, rlen[p])
                  [] rwake[p] = "error" -> RecordError(metrics)
                  [] OTHER -> metrics
  /\ hist' = IF rwake[p] = "error" THEN Failed(hist, p) ELSE hist
  /\ cur' = NoTask
  /\ UNCHANGED <<transport, NUM_ROOMS, PLAYERS_PER_ROOM, batch_size, players,
                 mgr_running, opc, next_i, staggers, reported, report,
                 rescored, is_running, connected, res, io, pc, msg, exc,
                 ccancel, ticks, position, velocity, moved, last_move,
                 rcancel, rlen, mpc, mcancel, shown, events, interrupted,
                 ready, todo, log>>

\* ---- LoadTestManager.monitor_stats --------------------------------------
MonCancelled ==
  /\ cur = Mon
  /\ mpc \in {"start", "sleep"}
  /\ mcancel
  /\ mpc' = "cancelled"
  /\ cur' = NoTask
  /\ UNCHANGED <<transport, NUM_ROOMS, PLAYERS_PER_ROOM, batch_size, players,
                 mgr_running, opc, next_i, staggers, reported, report,
                 rescored, metrics, is_running, connected, res, io, pc, msg,
                 exc, ccancel, ticks, position, velocity, moved, last_move,
                 rpc, rcancel, rlen, rwake, mcancel, shown, events,
                 interrupted, ready, todo, log, hist>>

\* first step: `while self.is_running: await asyncio.sleep(2)`
MonStart ==
  /\ cur = Mon
  /\ mpc = "start"
  /\ ~mcancel
  /\ mpc' = IF mgr_running THEN "sleep" ELSE "done"
  /\ cur' = NoTask
  /\ UNCHANGED <<transport, NUM_ROOMS, PLAYERS_PER_ROOM, batch_size, players,
                 mgr_running, opc, next_i, staggers, reported, report,
                 rescored, metrics, is_running, connected, res, io, pc, msg,
                 exc, ccancel, ticks, position, velocity, moved, last_move,
                 rpc, rcancel, rlen, rwake, mcancel, shown, events,
                 interrupted, ready, todo, log, hist>>

\* the phase of run_test in which a snapshot is rendered
Phase ==
  CASE opc \in {"create", "ramp", "ramp_sleep"} -> "ramp"
    [] opc = "run_sleep" -> "run"
    [] OTHER -> "shutdown"

\* a monitor that starts a new measuring interval with every snapshot
MonRenderResetting ==
  /\ cur = Mon
  /\ mpc = "sleep"
  /\ ~mcancel
  /\ shown' = [shown EXCEPT ![Phase] = TRUE]
  /\ metrics' = NewMetrics
  /\ mpc' = IF mgr_running THEN "sleep" ELSE "done"
  /\ cur' = NoTask
  /\ UNCHANGED <<transport, NUM_ROOMS, PLAYERS_PER_ROOM, batch_size, players,
                 mgr_running, opc, next_i, staggers, reported, report,
                 rescored, is_running, connected, res, io, pc, msg, exc,
                 ccancel, ticks, position, velocity, moved, last_move, rpc,
                 rcancel, rlen, rwake, mcancel, events, interrupted, ready,
                 todo, log, hist>>

\* the sleep is over: print_live_stats() reads the metrics and renders them,
\* then the loop test again
MonRender ==
  /\ cur = Mon
  /\ mpc = "sleep"
  /\ ~mcancel
  /\ shown' = [shown EXCEPT ![Phase] = TRUE]
  /\ mpc' = IF mgr_running THEN "sleep" ELSE "done"
  /\ cur' = NoTask
  /\ UNCHANGED <<transport, NUM_ROOMS, PLAYERS_PER_ROOM, batch_size, players,
                 mgr_running, opc, next_i, staggers, reported, report,
                 rescored, metrics, is_running, connected, res, io, pc, msg,
                 exc, ccancel, ticks, position, velocity, moved, last_move,
                 rpc, rcancel, rlen, rwake, mcancel, events, interrupted,
                 ready, todo, log, hist>>

\* ---- the system ---------------------------------------------------------
Timers == {Orch, Mon} \cup {Cl(p) : p \in Ids}

Next ==
  \/ Dispatch
  \/ \E t \in Timers : TimerFires(t)
  \/ \E p \in Ids : IoCompletes(p)
  \/ \E p \in Ids : DataArrives(p)
  \/ \E p \in Ids : ConnectionLost(p)
  \/ GatherDone
  \/ Interrupt
  \/ CreatePlayers
  \/ StartBatch
  \/ RampResume
  \/ StartMonitor
  \/ Shutdown
  \/ Report
  \/ Exit
  \/ \E p \in Ids : CancelledAtStart(p)
  \/ \E p \in Ids : Connect(p)
  \/ \E p \in Ids : Connected(p)
  \/ \E p \in Ids : SendMessage(p)
  \/ \E p \in Ids : Drained(p)
  \/ \E p \in Ids : EnterLoop(p)
  \/ \E p \in Ids : UpdatePosition(p)
  \/ \E p \in Ids : LoopExit(p)
  \/ \E p \in Ids : RecordLatency(p)
  \/ \E p \in Ids : SleepDone(p)
  \/ \E p \in Ids : Cancelled(p)
  \/ \E p \in Ids : Disconnect(p)
  \/ \E p \in Ids : Close(p)
  \/ \E p \in Ids : Closed(p)
  \/ \E p \in Ids : Finish(p)
  \/ \E p \in Ids : ReadCancelled(p)
  \/ \E p \in Ids : ReadStart(p)
  \/ \E p \in Ids : ReadHeader(p)
  \/ \E p \in Ids : ReadBody(p)
  \/ MonCancelled
  \/ MonStart
  \/ MonRender

Spec == Init /\ [][Next]_vars

\* ---- print_results applied to a snapshot --------------------------------
SentValues == {0, 1000, 1999, 2000, 5000, 10000, 12000}
ErrorValues == {0, 1, 6, 20, 200}
SampleValues == {<<>>, <<10>>, <<50>>, <<100>>, <<51, 150>>, <<200>>}

\* the metrics gather may leave behind
Snapshots ==
  {[NewMetrics EXCEPT !.messages_sent = s, !.errors = e, !.connections = c,
                      !.latencies = l] :
     s \in SentValues, e \in ErrorValues, l \in SampleValues,
     c \in 0 .. (MaxRooms * MaxPerRoom)}

ScoreInit ==
  /\ Start
  /\ batch_size = 1
  /\ metrics \in Snapshots
  /\ metrics.connections <= NUM_ROOMS * PLAYERS_PER_ROOM
  /\ transport = "udp" => metrics.connections = 0
  /\ reported = FALSE
  /\ report = NoReport
  /\ rescored = NoEval
  /\ Parked

\* self.print_results() on the snapshot
Evaluate ==
  /\ ~reported
  /\ report = NoReport
  /\ \E elapsed \in ElapsedValues :
       report' = PrintResults(transport, metrics, elapsed,
                              NUM_ROOMS * PLAYERS_PER_ROOM)
  /\ reported' = ~report'.raised
  /\ UNCHANGED <<transport, NUM_ROOMS, PLAYERS_PER_ROOM, batch_size, players,
                 mgr_running, opc, next_i, staggers, rescored, metrics,
                 is_running, connected, res, io, pc, msg, exc, ccancel,
                 ticks, position, velocity, moved, last_move, rpc, rcancel,
                 rlen, rwake, mpc, mcancel, shown, events, interrupted,
                 ready, todo, cur, log, hist>>

\* self.evaluate_performance() called again on the same metrics, when the
\* clock has moved on
Reevaluate ==
  /\ reported
  /\ rescored = NoEval
  /\ \E elapsed \in ElapsedValues :
       /\ elapsed >= report.elapsed
       /\ rescored' = evaluate_performance(transport, metrics, elapsed,
                                           NUM_ROOMS * PLAYERS_PER_ROOM)
  /\ UNCHANGED <<transport, NUM_ROOMS, PLAYERS_PER_ROOM, batch_size, players,
                 mgr_running, opc, next_i, staggers, reported, report,
                 metrics, is_running, connected, res, io, pc, msg, exc,
                 ccancel, ticks, position, velocity, moved, last_move, rpc,
                 rcancel, rlen, rwake, mpc, mcancel, shown, events,
                 interrupted, ready, todo, cur, log, hist>>

ScoreNext == Evaluate \/ Reevaluate

ScoreSpec == ScoreInit /\ [][ScoreNext]_vars

\* ---- the motion of update_position --------------------------------------
\* values of random.uniform(0, WORLD_SIZE) and of random.uniform(-1, 1)
Places == {0, 1, WORLD_SIZE \div 2, WORLD_SIZE - 1, WORLD_SIZE}
Speeds == {-MAX_SPEED, -3, 0, MAX_SPEED}

MotionInit ==
  /\ Start
  /\ NUM_ROOMS = 1
  /\ PLAYERS_PER_ROOM = 1
  /\ batch_size = 1
  /\ reported = FALSE
  /\ report = NoReport
  /\ rescored = NoEval
  /\ metrics = NewMetrics
  /\ position \in {<<x, y, 0>> : x \in Places, y \in Places}
  /\ velocity \in {<<vx, vy, 0>> : vx \in Speeds, vy \in Speeds}
  /\ moved = 0
  /\ last_move = NoMove

\* position[0] += velocity[0]; position[1] += velocity[1]
Advance(pos, vel) == <<pos[1] + vel[1], pos[2] + vel[2], pos[3]>>

\* position[i] < 0 or position[i] > WORLD_SIZE
Outside(x) == x < 0 \/ x > WORLD_SIZE

\* a clamp to the lower edge only
ClampLow(x) == IF x < 0 THEN 0 ELSE x

\* max(0, min(WORLD_SIZE, position[i]))
Clamp(x) == IF x < 0 THEN 0 ELSE IF x > WORLD_SIZE THEN WORLD_SIZE ELSE x

\* a velocity that keeps its sign at the edge
KeepSign(v) == v

\* a reflection that also doubles the speed
FlipDouble(v) == -2 * v

\* velocity[i] *= -1
Flip(v) == -v

\* the boundary check of the two planar axes
Bounce(pos, vel) ==
  [position |-> <<IF Outside(pos[1]) THEN Clamp(pos[1]) ELSE pos[1],
                  IF Outside(pos[2]) THEN Clamp(pos[2]) ELSE pos[2],
                  pos[3]>>,
   velocity |-> <<IF Outside(pos[1]) THEN Flip(vel[1]) ELSE vel[1],
                  IF Outside(pos[2]) THEN Flip(vel[2]) ELSE vel[2],
                  vel[3]>>]

\* the first part of update_position: advance, check the boundary, and with
\* probability 0.1 draw a new planar velocity
UpdateMotion ==
  /\ moved < MaxMoves
  /\ LET b == Bounce(Advance(position, velocity), velocity)
     IN /\ position' = b.position
        /\ \E resampled \in BOOLEAN :
             /\ velocity' \in
                  IF resampled
                    THEN {<<vx, vy, b.velocity[3]>> : vx \in Speeds, vy \in Speeds}
                    ELSE {b.velocity}
             /\ last_move' = [position |-> position, velocity |-> velocity,
                              resampled |-> resampled]
  /\ moved' = moved + 1
  /\ UNCHANGED <<transport, NUM_ROOMS, PLAYERS_PER_ROOM, batch_size, players,
                 mgr_running, opc, next_i, staggers, reported, report,
                 rescored, metrics, is_running, connected, res, io, pc, msg,
                 exc, ccancel, ticks, rpc, rcancel, rlen, rwake, mpc,
                 mcancel, shown, events, interrupted, ready, todo, cur, log,
                 hist>>

MotionNext == UpdateMotion

MotionSpec == MotionInit /\ [][MotionNext]_vars

\* ---- properties ---------------------------------------------------------
\* the player's task has ended
Ended(p) == pc[p] \in {"done", "failed", "cancelled"}

\* gather has returned to run_test
DrainComplete == opc \in {"exit", "done"}

\* nothing is scheduled, no timer is armed and no callback of the loop is
\* pending: only the peer of some socket can make the program move
Stalled ==
  /\ AtBoundary
  /\ ready = <<>>
  /\ \A t \in Timers : ~TimerDue(t)
  /\ \A p \in Ids : ~ClosePending(p)
  /\ ~(opc = "gather" /\ AllTasksDone)

\* suspended in the drain of its disconnect message
StuckInShutdown(p) ==
  pc[p] = "drain" /\ msg[p] = "disconnect" /\ ClBlocked(p)

\* C1: once stop() was called on every player, each player starts at most
\* one further tick (one further update_position call)
C1_StopReaction == \A p \in Ids : hist[p].after_stop <= 1

\* a player that had been ticking was stopped and has left its loop
C1_Witness ==
  \E p \in Ids : hist[p].stopped /\ ticks[p] > 0 /\ Ended(p)

\* C2: when the orchestrator's drain has completed, no player still holds
\* an open socket or stream writer
C2_TransportReleased == DrainComplete => \A p \in Ids : res[p] # "open"

\* C3: the orchestrator never waits in its drain with no bound: when a
\* player does not complete its disconnect step and nothing but that
\* player's peer can still wake the program, the report has been produced
C3_BoundedDrain ==
  (Stalled /\ ~interrupted /\ \E p \in Ids : StuckInShutdown(p)) => reported

\* the stream player's handshake (open_connection) failed
HandshakeFailed(p) == transport = "tcp" /\ pc[p] = "failed"

\* C4: a player whose handshake or initial connect send failed ends in
\* Failed with connection_errors counted, and never ticks
C4_ConnectFailure ==
  \A p \in Ids :
    (HandshakeFailed(p) \/ hist[p].first = "err") =>
      /\ pc[p] = "failed"
      /\ metrics.connection_errors >= 1
      /\ ticks[p] = 0

\* C5: in the final report, connections counts only players whose handshake
\* and initial connect send both succeeded
C5_ConnectionsCounted ==
  reported =>
    metrics.connections <= Cardinality({p \in Ids : hist[p].first = "ok"})

\* a move's send_message call ended with a failure in this step
FailedMove(p) ==
  /\ hist'[p].sends = hist[p].sends + 1
  /\ hist'[p].last = <<"move", "err">>

\* C6: a failed send of a move counts exactly one error and changes nothing
\* else: the tick goes on as after a successful send (latency sample, then
\* the sleep before the next tick), and every tick sends its message once
C6_SendFailureKeepsTicking ==
  [][\A p \in Ids :
       /\ FailedMove(p) =>
            /\ metrics'.errors = metrics.errors + 1
            /\ metrics'.messages_sent = metrics.messages_sent
            /\ pc'[p] = "latency"
            /\ is_running'[p] = is_running[p]
            /\ connected'[p] = connected[p]
            /\ res'[p] = res[p]
            /\ exc'[p] = exc[p]
       /\ (msg'[p] = "move" /\ pc'[p] \in {"send", "drain"})
            => hist'[p].sends = ticks'[p]]_vars

\* a move failed and the player has started a later tick
C6_Witness ==
  \E p \in Ids : hist[p].failed_tick > 0 /\ ticks[p] > hist[p].failed_tick

\* a disconnect's send_message call ended with a failure in this step
FailedDisconnect(p) ==
  /\ hist'[p].sends = hist[p].sends + 1
  /\ hist'[p].last = <<"disconnect", "err">>

\* C7: a failed send of the disconnect message leaves the errors counter
\* unchanged and the player goes on to close its transport
C7_DisconnectFailureSwallowed ==
  [][\A p \in Ids :
       FailedDisconnect(p) =>
         metrics'.errors = metrics.errors /\ pc'[p] = "close"]_vars

\* C8: when every player but one has ended and that one is stuck in its
\* disconnect step, the run is not held up: the report has been produced
C8_FailureIsolation ==
  \A p \in Population :
    (/\ StuckInShutdown(p)
     /\ \A q \in Population \ {p} : Ended(q)
     /\ Cardinality(Population) > 1
     /\ Stalled
     /\ ~interrupted) => reported

\* C9: after an interrupt, once every task has ended, every player was
\* told to stop and the report has been produced
C9_InterruptIsGraceful ==
  (/\ interrupted
   /\ cur = NoTask
   /\ ready = <<>>
   /\ \A p \in Population : Ended(p))
    => reported /\ \A p \in Population : hist[p].stopped

\* C10: when a stream player that started its reader has closed its stream
\* and ended in an orchestrated shutdown, cancel() has been called on the
\* read task
C10_ReaderCancelled ==
  \A p \in Ids :
    (/\ ~interrupted
     /\ Ended(p)
     /\ res[p] = "closed"
     /\ rpc[p] # "none") => rcancel[p]

\* the reader of p is about to handle a header that announces more than 1 MiB
OversizeHeader(p) ==
  /\ cur = Rd(p)
  /\ rpc[p] = "hdr"
  /\ ~rcancel[p]
  /\ rwake[p] = "data"
  /\ rlen[p] > MAX_FRAME

\* C11: an inbound frame over 1 MiB ends the receive loop of its player and
\* nothing else: no task is cancelled or ended, the player's flags, stream
\* and tick loop, the orchestrator and the other readers stay as they are
C11_OversizeEndsOnlyReader ==
  [][\A p \in Ids :
       OversizeHeader(p) =>
         /\ rpc'[p] = "done"
         /\ \A q \in Ids \ {p} : rpc'[q] = rpc[q]
         /\ pc' = pc
         /\ ccancel' = ccancel
         /\ rcancel' = rcancel
         /\ exc' = exc
         /\ is_running' = is_running
         /\ connected' = connected
         /\ res' = res
         /\ opc' = opc
         /\ mgr_running' = mgr_running]_vars

\* a reader ended on an oversized frame and its player is in a later tick
C11_Witness ==
  \E p \in Ids :
    /\ rpc[p] = "done"
    /\ rlen[p] > MAX_FRAME
    /\ ~rcancel[p]
    /\ is_running[p]
    /\ pc[p] = "send"
    /\ msg[p] = "move"

\* the reader of p is about to handle a receive failure: an oversized frame,
\* or the end of a stream the player has not closed
ReceiveFailure(p) ==
  \/ OversizeHeader(p)
  \/ /\ cur = Rd(p)
     /\ rpc[p] \in {"hdr", "body"}
     /\ ~rcancel[p]
     /\ rwake[p] = "eof"
     /\ res[p] = "open"

\* C12: a receive failure increments the errors counter by one and leaves
\* the player's tick loop as it is
C12_ReceiveFailureCounted ==
  [][\A p \in Ids :
       ReceiveFailure(p) =>
         metrics'.errors = metrics.errors + 1 /\ pc' = pc]_vars

\* C13: while its player is running and the stream is open, the receive
\* loop ends only because the stream ended or failed or because a frame
\* announced more than 1 MiB
C13_ReaderKeepsConsuming ==
  [][\A p \in Ids :
       (/\ rpc[p] \in {"hdr", "body"}
        /\ rpc'[p] = "done"
        /\ is_running[p]
        /\ connected[p]
        /\ res[p] = "open"
        /\ ~rcancel[p])
         => \/ rwake[p] \in {"eof", "error"}
            \/ OversizeHeader(p)]_vars

\* none of the player's send_message calls has failed
NoSendFailure(p) ==
  /\ hist[p].first # "err"
  /\ hist[p].failed_tick = 0
  /\ hist[p].last[2] # "err"

\* between two ticks, or after the player has closed and ended
QuiescentPoint(p) ==
  \/ pc[p] = "sleep"
  \/ Ended(p) /\ res[p] = "closed"

C15_NoSampleForFailedSend ==
  [][\A p \in Ids :
       (cur = Cl(p) /\ pc[p] = "latency" /\ hist[p].last = <<"move", "err">>)
         => metrics'.latencies = metrics.latencies]_vars

\* C16: no counter of the metrics and not the length of the latency
\* sequence ever decreases, and start_time never changes
C16_CountersMonotonic ==
  [][/\ metrics'.messages_sent >= metrics.messages_sent
     /\ metrics'.messages_received >= metrics.messages_received
     /\ metrics'.bytes_sent >= metrics.bytes_sent
     /\ metrics'.bytes_received >= metrics.bytes_received
     /\ metrics'.errors >= metrics.errors
     /\ metrics'.connections >= metrics.connections
     /\ metrics'.connection_errors >= metrics.connection_errors
     /\ Len(metrics'.latencies) >= Len(metrics.latencies)
     /\ metrics'.start_time = metrics.start_time]_vars

\* several messages were counted, and a sample and a connection
C16_Witness ==
  /\ metrics.messages_sent > 2
  /\ metrics.bytes_sent > 0
  /\ Len(metrics.latencies) > 1
  /\ metrics.connections > 0

RECURSIVE SumOver(_, _)
\* the sum of f[p] over the players p of S
SumOver(f, S) ==
  IF S = {} THEN 0
  ELSE LET p == CHOOSE q \in S : TRUE
       IN f[p] + SumOver(f, S \ {p})

\* every player task and every receive task of the population is over
AllFinished ==
  /\ Population # {}
  /\ \A p \in Population : Ended(p) /\ ~LiveRd(p)

\* C17: once every player task and receive task has finished, messages_sent
\* is the number of the sends the players completed, bytes_sent the sum of
\* their packet sizes and errors the number of the failures their tasks
\* recorded: no increment of the shared metrics was lost
C17_NoLostUpdates ==
  AllFinished =>
    /\ metrics.messages_sent = SumOver([p \in Ids |-> hist[p].sent], Ids)
    /\ metrics.bytes_sent = SumOver([p \in Ids |-> hist[p].bytes], Ids)
    /\ metrics.errors = SumOver([p \in Ids |-> hist[p].failures], Ids)

\* two players have finished, each after several sends
C17_Witness ==
  /\ AllFinished
  /\ Cardinality(Population) = 2
  /\ \A p \in Population : hist[p].sent >= 2

\* the send_message calls of p that have begun and not ended
InFlight(p) == hist[p].calls - hist[p].sends

\* C18: a player has at most one send in flight, and it has one exactly
\* while its task is suspended in that send's drain
C18_SendsSequential ==
  \A p \in Ids :
    /\ InFlight(p) \in {0, 1}
    /\ InFlight(p) = 1 <=> pc[p] = "drain"

\* a player was cancelled while its send awaited drain and is about to send
\* its disconnect message
C18_Witness ==
  \E p \in Ids :
    /\ hist[p].last[2] = "cancelled"
    /\ hist[p].last[1] # "disconnect"
    /\ msg[p] = "disconnect"
    /\ pc[p] = "send"
    /\ InFlight(p) = 0

\* the players whose task has been created
Started == {p \in Ids : pc[p] # "unborn"}

\* C19: when k stagger pauses have elapsed, at most (k + 1) * batch_size
\* players have been started
C19_RampAdmission ==
  Cardinality(Started) <= (staggers + 1) * batch_size

\* the second batch has been started and its pause has not elapsed
C19_Witness ==
  /\ opc = "ramp_sleep"
  /\ staggers = 1
  /\ Len(players) > batch_size
  /\ Cardinality(Started) = 2 * batch_size

\* the least whole number of b's that cover n
CeilDiv(n, b) == (n + b - 1) \div b

\* C20: when all N players have been started with batch size B, at least
\* ceil(N / B) - 1 stagger pauses have elapsed
C20_RampDuration ==
  (Population # {} /\ Population \subseteq Started) =>
    staggers >= CeilDiv(Len(players), batch_size) - 1

\* the last player of a population larger than the batch has been started
\* and the pause after its batch has not elapsed
C20_Witness ==
  /\ Population \subseteq Started
  /\ Len(players) > batch_size
  /\ opc = "ramp_sleep"
  /\ staggers = CeilDiv(Len(players), batch_size) - 1

\* C21: the monitor renders no snapshot once the orchestrator has begun the
\* shutdown
C21_MonitorSilentInShutdown == ~shown.shutdown

\* C22: from the start of the first batch until the shutdown begins the
\* monitor task exists and is polling
C22_MonitorThroughout ==
  (Started # {} /\ opc \in {"ramp", "ramp_sleep", "run_sleep"}) => LiveMon

\* the step the loop is executing is the monitor's, after its sleep
MonitorTick == cur = Mon /\ mpc = "sleep" /\ ~mcancel

\* C23: a tick of the monitor changes no counter of the metrics, not the
\* latency sequence or start_time, and nothing of any player
C23_MonitorObserves ==
  [][MonitorTick =>
       /\ metrics' = metrics
       /\ players' = players
       /\ is_running' = is_running
       /\ connected' = connected
       /\ res' = res
       /\ io' = io
       /\ pc' = pc
       /\ msg' = msg
       /\ exc' = exc
       /\ ccancel' = ccancel
       /\ ticks' = ticks
       /\ rpc' = rpc
       /\ rcancel' = rcancel
       /\ log' = log]_vars

\* the monitor has rendered a snapshot of metrics that had counted messages
C23_Witness ==
  /\ shown.run
  /\ metrics.messages_sent > 0
  /\ Len(metrics.latencies) > 0
  /\ \E p \in Ids : pc[p] = "sleep"

\* every player of the population failed to connect
EveryClientFailed ==
  Population # {} /\ \A p \in Population : pc[p] = "failed"

\* C24: a run in which every player failed does not come to rest without
\* the report; the report and the score are computed with no division by
\* zero, and the error rate is errors / max(1, messages_sent)
C24_ReportWithoutZeroDivision ==
  /\ (EveryClientFailed /\ Stalled /\ ~interrupted) => reported
  /\ opc \in {"exit", "done"} =>
       /\ reported
       /\ ~report.raised
       /\ report.error_rate.num = report.errors
       /\ report.error_rate.den =
            (IF report.messages_sent = 0 THEN 1 ELSE report.messages_sent)

\* the report of a run in which every player failed and nothing was sent
C24_Witness ==
  /\ reported
  /\ EveryClientFailed
  /\ report.messages_sent = 0
  /\ report.samples = 0
  /\ report.elapsed = 0

\* C25: the planar components of the position lie within [0, WORLD_SIZE]
\* and the third component is 0, at creation and after every tick
C25_PositionBounds ==
  /\ position[1] >= 0 /\ position[1] <= WORLD_SIZE
  /\ position[2] >= 0 /\ position[2] <= WORLD_SIZE
  /\ position[3] = 0

\* the latest tick would have carried component i past WORLD_SIZE, or below 0
CrossedHigh(i) ==
  moved > 0 /\ last_move.position[i] + last_move.velocity[i] > WORLD_SIZE

CrossedLow(i) ==
  moved > 0 /\ last_move.position[i] + last_move.velocity[i] < 0

\* a tick has clamped one component at each edge
C25_Witness == CrossedHigh(1) /\ CrossedLow(2) /\ moved = MaxMoves

\* C26: after a tick that would have carried a planar component past
\* WORLD_SIZE the component is WORLD_SIZE and its velocity is negative; after
\* one that would have carried it below 0 the component is 0 and its
\* velocity is positive
C26_Reflection ==
  \A i \in {1, 2} :
    /\ CrossedHigh(i) => position[i] = WORLD_SIZE /\ velocity[i] < 0
    /\ CrossedLow(i) => position[i] = 0 /\ velocity[i] > 0

\* C26: after a tick that would have carried a planar component past
\* WORLD_SIZE the component is WORLD_SIZE, after one that would have carried
\* it below 0 the component is 0; unless the tick drew a new velocity, the
\* velocity of the component is the old one with its sign reversed
C26_ReflectionUnlessResampled ==
  \A i \in {1, 2} :
    /\ CrossedHigh(i) =>
         /\ position[i] = WORLD_SIZE
         /\ ~last_move.resampled =>
              velocity[i] < 0 /\ velocity[i] = -last_move.velocity[i]
    /\ CrossedLow(i) =>
         /\ position[i] = 0
         /\ ~last_move.resampled =>
              velocity[i] > 0 /\ velocity[i] = -last_move.velocity[i]

\* the spec's scenario: x = WORLD_SIZE - 0.1 and vx = +1, one tick, no draw
C26_Witness ==
  /\ moved = 1
  /\ last_move.position[1] = WORLD_SIZE - 1
  /\ last_move.velocity[1] = MAX_SPEED
  /\ ~last_move.resampled
  /\ position[1] = WORLD_SIZE
  /\ velocity[1] = -MAX_SPEED

\* C27: every player's room_id is its player_id divided by
\* PLAYERS_PER_ROOM, rounded down, and the players once created keep their
\* player_id and room_id through every later step
C27_RoomPartition ==
  [][/\ \A i \in 1 .. Len(players') :
          players'[i].room_id = players'[i].player_id \div PLAYERS_PER_ROOM'
     /\ players # <<>> => players' = players]_vars

\* a player that shares its room with a lower-numbered one has connected,
\* ticked, was stopped and has disconnected
C27_Witness ==
  \E i \in 1 .. Len(players) :
    /\ players[i].player_id # players[i].room_id
    /\ pc[players[i].player_id] = "done"
    /\ ticks[players[i].player_id] > 0
    /\ hist[players[i].player_id].stopped

\* the indexes of the players of room r
Room(r) == {i \in 1 .. Len(players) : players[i].room_id = r}

\* the population create_players is to build
PopulationBuilt ==
  /\ Len(players) = NUM_ROOMS * PLAYERS_PER_ROOM
  /\ \A i, j \in 1 .. Len(players) :
       players[i].player_id = players[j].player_id => i = j
  /\ \A i \in 1 .. Len(players) : players[i].room_id \in 0 .. (NUM_ROOMS - 1)
  /\ \A r \in 0 .. (NUM_ROOMS - 1) : Cardinality(Room(r)) = PLAYERS_PER_ROOM

\* C28: create_players builds NUM_ROOMS * PLAYERS_PER_ROOM players with
\* distinct player_ids, PLAYERS_PER_ROOM of them in every room, and no step
\* of a player's task, of a reader or of the monitor changes the list
C28_PopulationBuild ==
  [][/\ opc' # "create" => PopulationBuilt'
     /\ cur # Orch => players' = players]_vars

\* two rooms were filled and a player's task has run to its end
C28_Witness ==
  /\ NUM_ROOMS = 2
  /\ PopulationBuilt
  /\ opc = "done"
  /\ \E p \in Population : pc[p] = "done" /\ ticks[p] > 0

\* the best-tier and the possible points of the axes the tester evaluates
TierPoints(t) ==
  IF t = "udp"
    THEN [throughput |-> {30, 20, 10}, latency |-> {30, 20, 10},
          connection |-> {0}, error |-> {40, 25, 10}]
    ELSE [throughput |-> {25, 20, 10}, latency |-> {25, 20, 10},
          connection |-> {25, 20, 10}, error |-> {25, 20, 10}]

Best(S) == CHOOSE x \in S : \A y \in S : y <= x

\* C29: the total score is the points earned on the evaluated axes divided
\* by the points possible, times 100, every axis earning the points of one of
\* its three tiers; the grade is A from 80, B from 60 and C below; the score
\* lies in 0..100
C29_ScoringFormula ==
  reported =>
    LET e == report.eval
        tiers == TierPoints(transport)
        earned == e.points.throughput + e.points.latency
                  + e.points.connection + e.points.error
        possible == Best(tiers.throughput) + Best(tiers.latency)
                    + Best(tiers.connection) + Best(tiers.error)
    IN /\ e.points.throughput \in tiers.throughput
       /\ e.points.latency \in tiers.latency
       /\ e.points.connection \in tiers.connection
       /\ e.points.error \in tiers.error
       /\ e.total_score.den > 0
       /\ e.total_score.num * possible = earned * 100 * e.total_score.den
       /\ e.grade = "A" <=> e.total_score.num >= 80 * e.total_score.den
       /\ e.grade = "B" <=> /\ e.total_score.num >= 60 * e.total_score.den
                            /\ e.total_score.num < 80 * e.total_score.den
       /\ e.grade = "C" <=> e.total_score.num < 60 * e.total_score.den
       /\ e.total_score.num >= 0
       /\ e.total_score.num <= 100 * e.total_score.den

\* a total of exactly 80 was graded
C29_Witness ==
  /\ reported
  /\ report.eval.score = 80
  /\ report.eval.grade = "A"
  /\ transport = "udp"

\* the snapshot is in the top tier of the three axes of the datagram tester
TopTier ==
  /\ AtLeast(report.messages_per_second, 10000)
  /\ AtMost(report.avg_latency, 50)
  /\ Below(report.error_rate, 1, 1000)

\* C30: on the datagram tester a snapshot in the top tier of every axis
\* earns all the points there are and the grade A
C30_TopTierIsA ==
  (reported /\ transport = "udp" /\ TopTier) =>
    /\ report.eval.score = report.eval.max_score
    /\ report.eval.total_score = Frac(100 * report.eval.max_score,
                                      report.eval.max_score)
    /\ report.eval.grade = "A"

\* the spec's scenario: 12000 msg/s, 10 ms on average, 0.05 % errors
C30_Witness ==
  /\ reported
  /\ transport = "udp"
  /\ report.messages_per_second = Frac(12000, 1)
  /\ report.avg_latency = Frac(10, 1)
  /\ report.error_rate = Frac(6, 12000)
  /\ report.eval.grade = "A"


\* ---- the scorer and the clock -------------------------------------------
\* C31: the score is a pure function of the final snapshot and the transport:
\* two evaluations of the same counters and latency samples give the same
\* score and the same grade, whenever they are performed
C31_ScorerIgnoresClock ==
  rescored # NoEval =>
    /\ rescored.score = report.eval.score
    /\ rescored.grade = report.eval.grade

\* C32: the report's messages_per_second is messages_sent / elapsed and its
\* error rate is errors / max(1, messages_sent); 1000 messages with 1 error
\* in 10 s give 100 messages per second and an error rate of 0.1 %
C32_DerivedRates ==
  reported =>
    /\ report.elapsed > 0 =>
         /\ report.messages_per_second.den # 0
         /\ report.messages_per_second.num * report.elapsed
              = report.messages_sent * report.messages_per_second.den
    /\ report.error_rate.den # 0
    /\ report.error_rate.num
         * (IF report.messages_sent > 1 THEN report.messages_sent ELSE 1)
         = report.errors * report.error_rate.den
    /\ (report.messages_sent = 1000 /\ report.errors = 1
        /\ report.elapsed = 10) =>
         /\ report.messages_per_second.num
              = 100 * report.messages_per_second.den
         /\ report.error_rate.num * 1000 = report.error_rate.den

\* a report of 1000 messages with 1 error after 10 s
C32_Witness ==
  /\ reported
  /\ report.messages_sent = 1000
  /\ report.errors = 1
  /\ report.elapsed = 10

\* ---- the order of run_test ----------------------------------------------
\* a step in which stop() reaches a player
StopIssued == \E p \in Ids : hist'[p].stopped /\ ~hist[p].stopped

\* C33: stop is issued to a player only by the orchestrator resuming from
\* its sleep of the test duration, when every batch has been started; the
\* final report and the score are computed only when gather has returned,
\* every player task has ended and every player has been stopped
C33_RunOrdering ==
  [][/\ StopIssued =>
          /\ cur = Orch
          /\ opc = "run_sleep"
          /\ next_i >= Len(players)
          /\ Population # {}
          /\ Population \subseteq Started
          /\ mpc # "none"
     /\ (reported' /\ ~reported) =>
          /\ cur = Orch
          /\ opc = "gather"
          /\ \A p \in Population : Ended(p) /\ hist[p].stopped]_vars

\* two players started in two batches, stopped, drained and reported
C33_Witness ==
  /\ reported
  /\ Cardinality(Population) = 2
  /\ staggers = 2
  /\ \A p \in Population : hist[p].stopped /\ Ended(p)

\* ---- the messages of one player -----------------------------------------
\* one connect, then moves, then at most one disconnect, which is the last
InOrder(s) ==
  \A i \in 1 .. Len(s) :
    IF i = 1 THEN s[i] = "connect"
    ELSE s[i] = "move" \/ (s[i] = "disconnect" /\ i = Len(s))

FrameRead(p) ==
  cur = Rd(p) /\ rpc[p] = "body" /\ ~rcancel[p] /\ rwake[p] = "data"

\* C35: messages_received grows by one and bytes_received by 4 + length
\* exactly in the step in which a complete frame of a declared length of at
\* most 1 MiB has been read; no other step changes either counter
C35_ReceiveAccounting ==
  [][IF \E p \in Ids : FrameRead(p)
       THEN \E p \in Ids :
              /\ FrameRead(p)
              /\ rlen[p] <= MAX_FRAME
              /\ metrics'.messages_received = metrics.messages_received + 1
              /\ metrics'.bytes_received
                   = metrics.bytes_received + HEADER_LEN + rlen[p]
       ELSE /\ metrics'.messages_received = metrics.messages_received
            /\ metrics'.bytes_received = metrics.bytes_received]_vars

\* a frame was counted, and a reader has ended
C35_Witness ==
  /\ metrics.messages_received = 1
  /\ metrics.bytes_received > HEADER_LEN
  /\ \E p \in Population : rpc[p] = "done"

\* ---- connect ------------------------------------------------------------
\* the player's connect step is over, and was not ended by a cancellation
ConnectFinished(p) ==
  /\ pc[p] \notin {"unborn", "start", "open_conn"}
  /\ ~(pc[p] = "cancelled" /\ res[p] = "none")

\* C36: in the stream tester every player counts at most one of connections
\* and connection_errors, at most once; the two counters are the sums over
\* the players, so their sum never exceeds the population, and it equals the
\* population once every player has finished its connect step uncancelled
C36_ConnectionAccounting ==
  transport = "tcp" =>
    /\ \A p \in Ids : hist[p].conns + hist[p].conn_errs <= 1
    /\ metrics.connections = SumOver([p \in Ids |-> hist[p].conns], Ids)
    /\ metrics.connection_errors = SumOver([p \in Ids |-> hist[p].conn_errs], Ids)
    /\ metrics.connections + metrics.connection_errors
         <= Cardinality(Population)
    /\ (Population # {} /\ \A p \in Population : ConnectFinished(p)) =>
         metrics.connections + metrics.connection_errors
           = Cardinality(Population)

\* two players, one connected and one refused
C36_Witness ==
  /\ transport = "tcp"
  /\ Cardinality(Population) = 2
  /\ \A p \in Population : ConnectFinished(p)
  /\ metrics.connections = 1
  /\ metrics.connection_errors = 1

\* ---- the report ---------------------------------------------------------
\* C37: when run_test computes the final report no player task and no
\* receive task is live, before it and after it, and the step that prints
\* the report and the score leaves the counters as the report shows them
C37_QuiescentReport ==
  [][(opc = "gather" /\ opc' = "exit") =>
       /\ \A p \in Ids : ~LiveCl(p) /\ ~LiveRd(p)
       /\ \A p \in Ids : ~(LiveCl(p))' /\ ~(LiveRd(p))'
       /\ metrics' = metrics
       /\ reported'
       /\ report'.messages_sent = metrics.messages_sent
       /\ report'.errors = metrics.errors
       /\ report'.connections = metrics.connections
       /\ report'.samples = Len(metrics.latencies)]_vars

\* the report of a stream run whose player was cancelled in its loop and
\* whose reader ended without having been cancelled
C37_Witness ==
  /\ reported
  /\ opc = "exit"
  /\ transport = "tcp"
  /\ \E p \in Population :
       pc[p] = "cancelled" /\ rpc[p] = "done" /\ ~rcancel[p]

\* C38: every axis earns at least its worst tier of 10 points, so the total
\* is at least 30 of 100 for the datagram tester and 40 of 100 for the
\* stream tester, and never 0
C38_ScoreFloor ==
  reported =>
    /\ report.eval.points.throughput >= 10
    /\ report.eval.points.latency >= 10
    /\ report.eval.points.error >= 10
    /\ transport = "tcp" => report.eval.points.connection >= 10
    /\ report.eval.score >= (IF transport = "udp" THEN 30 ELSE 40)
    /\ AtLeast(report.eval.total_score,
               IF transport = "udp" THEN 30 ELSE 40)
    /\ report.eval.total_score.num > 0

\* the stream tester's worst report
C38_Witness ==
  /\ reported
  /\ transport = "tcp"
  /\ report.eval.score = 40
  /\ report.eval.grade = "C"

\* C39: with no latency sample the average, minimum and maximum latency are
\* 0 and the latency axis has its top tier; with no error and no message the
\* error axis has its top tier; a stream run without any connection,
\* message, error or sample scores 70 and is graded B
C39_EmptyRun ==
  reported =>
    /\ report.samples = 0 =>
         /\ report.avg_latency.num = 0
         /\ report.avg_latency.den # 0
         /\ report.min_latency = 0
         /\ report.max_latency = 0
         /\ report.eval.points.latency = (IF transport = "udp" THEN 30 ELSE 25)
    /\ (report.errors = 0 /\ report.messages_sent = 0) =>
         report.eval.points.error = (IF transport = "udp" THEN 40 ELSE 25)
    /\ (/\ transport = "tcp"
        /\ report.samples = 0
        /\ report.errors = 0
        /\ report.messages_sent = 0
        /\ report.connections = 0) =>
         /\ report.eval.score = 70
         /\ AtLeast(report.eval.total_score, 70)
         /\ AtMost(report.eval.total_score, 70)
         /\ report.eval.grade = "B"

\* the report of a stream run in which nothing was connected or sent
C39_Witness ==
  /\ reported
  /\ transport = "tcp"
  /\ report.samples = 0
  /\ report.errors = 0
  /\ report.messages_sent = 0
  /\ report.connections = 0
  /\ report.eval.grade = "B"

\* ---- velocity -----------------------------------------------------------
Within(v) == -MAX_SPEED <= v /\ v <= MAX_SPEED

\* C40: both planar velocity components stay within [-1, 1] and the third
\* is 0, from construction through reflection and resampling, so that a
\* tick advances a planar position component by at most 1 before clamping
C40_VelocityBounds ==
  /\ Within(velocity[1])
  /\ Within(velocity[2])
  /\ velocity[3] = 0
  /\ moved > 0 =>
       LET to == Advance(last_move.position, last_move.velocity)
       IN /\ Within(to[1] - last_move.position[1])
          /\ Within(to[2] - last_move.position[2])
          /\ to[3] = last_move.position[3]

\* the last tick of a run, made at full speed and reflected at the upper edge
C40_Witness ==
  /\ moved = MaxMoves
  /\ ~last_move.resampled
  /\ last_move.velocity[1] = MAX_SPEED
  /\ velocity[1] = -MAX_SPEED
  /\ position[1] = WORLD_SIZE

====
